---- MODULE Spec2Model ----
(***************************************************************************)
(* Staging mailbox transfer of a microcode image: staging_work() and the   *)
(* helpers it calls (abort_xaction, request_xaction, wait_for_xaction,     *)
(* read_xaction_response, get_chunksize).                                  *)
(*                                                                         *)
(* The device is the environment: every read of the status register and    *)
(* every read of the read-data register returns a value the device chose.  *)
(* The host takes one step per interaction with the device.                *)
(***************************************************************************)
EXTENDS Integers, Sequences, FiniteSets, TLC

(***************************************************************************)
(* Sizes of the model.  unsigned int is 32 bits wide, a page is 2^12 bytes *)
(* and a second has 1000 ms on the real machine; the model keeps the same  *)
(* wrap-around arithmetic, the same page/word ratio structure and the same *)
(* poll loop at sizes that can be enumerated.                              *)
(***************************************************************************)
UINT_BITS == 6
PAGE_SHIFT == 3
MSEC_PER_SEC == 1

UINT_MOD == 2 ^ UINT_BITS
UINT_MAX == UINT_MOD - 1
PAGE_SIZE == 2 ^ PAGE_SHIFT
SIZEOF_U32 == 4

BIT(n) == {n}

MASK_MBOX_CTRL_ABORT == BIT(0)
MASK_MBOX_CTRL_GO == BIT(31)

MASK_MBOX_STATUS_ERROR == BIT(2)
MASK_MBOX_STATUS_READY == BIT(31)

MASK_MBOX_RESP_SUCCESS == BIT(0)
MASK_MBOX_RESP_PROGRESS == BIT(1)
MASK_MBOX_RESP_ERROR == BIT(2)

MBOX_CMD_LOAD == 3
MBOX_OBJ_STAGING == 11
\* PCI_VENDOR_ID_INTEL (0x8086) | (MBOX_OBJ_STAGING << 16)
MBOX_HDR == 32902 + MBOX_OBJ_STAGING * 65536
MBOX_HDR_SIZE == 16

MBOX_XACTION_LEN == PAGE_SIZE
MBOX_XACTION_MAX(imgsz) == (imgsz * 2) % UINT_MOD
MBOX_XACTION_TIMEOUT == 10 * MSEC_PER_SEC

STAGING_OFFSET_END == UINT_MAX
DWORD_SIZE(s) == s \div SIZEOF_U32

UCODE_OK == "UCODE_OK"
UCODE_ERROR == "UCODE_ERROR"
UCODE_TIMEOUT == "UCODE_TIMEOUT"
UcodeStates == {UCODE_OK, UCODE_ERROR, UCODE_TIMEOUT}
\* no wait_for_xaction call has returned since the last request
UCODE_NONE == "none"

Min(a, b) == IF a < b THEN a ELSE b

\* bit test: (reg & mask) != 0
And(reg, mask) == (reg \cap mask) # {}

(***************************************************************************)
(* Inputs.                                                                 *)
(***************************************************************************)
\* payload sizes: every multiple of the word size an unsigned int can hold
TotalSizes == {s \in 0..UINT_MAX : s % SIZEOF_U32 = 0}

\* values the device may show in the status register
StatusValues == SUBSET (MASK_MBOX_STATUS_ERROR \cup MASK_MBOX_STATUS_READY)

\* flag words the device may put in a response
FlagValues == {MASK_MBOX_RESP_SUCCESS, MASK_MBOX_RESP_PROGRESS,
               MASK_MBOX_RESP_ERROR,
               MASK_MBOX_RESP_SUCCESS \cup MASK_MBOX_RESP_ERROR}

\* next-offset words the device may put in the response to the chunk of cs
\* bytes at off: the start of the image, the same offset again, the offset
\* after the chunk, the end of the image, an offset past the end of the
\* image, the end marker
OffsetValues(total, off, cs) ==
    {0, off, (off + cs) % UINT_MOD, total, (total + SIZEOF_U32) % UINT_MOD,
     STAGING_OFFSET_END}

\* identifier and header-length words the device may put in a response
HdrValues == {MBOX_HDR, 0}
LenValues == {DWORD_SIZE(MBOX_HDR_SIZE), DWORD_SIZE(MBOX_HDR_SIZE) + 1}

\* the dword at byte offset b of the image; what a read outside the image
\* returns is not defined
UcodeWord(b) == 1000 + b \div SIZEOF_U32
GARBAGE == 0 - 1

VARIABLES
    totalsize,      \* parameter of staging_work
    pc,             \* position in staging_work
    mapped,         \* the register window is mapped (ioremap .. iounmap)
    ctrl,           \* last value written to the control register
    wrlog,          \* words written to write-data by the latest request
    offset, xaction_bytes, chunksize, state,   \* locals of staging_work
    timeout,        \* loop counter of wait_for_xaction
    status,         \* the latest value read from the status register
    flag,                                      \* local of read_xaction_response
    result,         \* return value of staging_work
    logmsg,         \* classification printed by pr_err
    \* history of the run
    nreq,           \* request_xaction calls (go strobes), counted up to MaxCount
    nwait,          \* wait_for_xaction calls that returned, up to MaxCount
    ndec,           \* read_xaction_response calls, up to MaxCount
    sent,           \* sum of the chunk sizes handed to request_xaction (unsigned int)
    wait_ret,       \* what the latest wait_for_xaction returned
    saw_ready,      \* a sample of the poll loop of the latest wait had ready set
    saw_err,        \* a status value read by the latest wait had error set
    hw_benign,      \* so far every wait ended ready without error, every
                    \* response was error-free and none reported the end marker
    inseq,          \* so far every wait returned OK and every response was
                    \* error-free and reported the in-sequence offset
    first_resp,     \* the first response: "none" yet, "end" (error-free with
                    \* the end marker) or "other"
    why,            \* which branch left the loop
    io,             \* the register accesses of the latest step, in order
    first_acc,      \* the first register access of the run (<<>>: none yet)
    nabort,         \* abort strobes written so far, counted up to 2
    nunmap,         \* iounmap calls so far
    carry           \* 1 once xaction_bytes has wrapped: the sum of the chunk
                    \* sizes counted is at least carry * UINT_MOD + xaction_bytes

vars == <<totalsize, pc, mapped, ctrl, wrlog, offset, xaction_bytes, chunksize,
          state, timeout, status, flag, result, logmsg, nreq, nwait, ndec, sent,
          wait_ret, saw_ready, saw_err, hw_benign, inseq, first_resp, why,
          io, first_acc, nabort, nunmap, carry>>

\* the counters stop counting here (more than the chunks of any image whose
\* doubled size an unsigned int can hold)
MaxCount == (UINT_MOD \div 2) \div PAGE_SIZE + 1
Bump(n) == IF n < MaxCount THEN n + 1 ELSE n

(***************************************************************************)
(* Pure parts of the code.                                                 *)
(***************************************************************************)
\* variant: the remaining size is ignored
get_chunksize_NoMin(total, off) == MBOX_XACTION_LEN

get_chunksize(total, off) ==
    Min(MBOX_XACTION_LEN, (total - off + UINT_MOD) % UINT_MOD)

\* variant: the chunk about to be sent is left out of the test
BudgetExceeded_NoChunk(xb, cs, total) ==
    xb > MBOX_XACTION_MAX(total)

\* the budget test of the loop, in unsigned int arithmetic
BudgetExceeded(xb, cs, total) ==
    (xb + cs) % UINT_MOD > MBOX_XACTION_MAX(total)

\* variant: a failed budget test reported as an error
BudgetState_Error == UCODE_ERROR

\* state on a failed budget test
BudgetState == UCODE_TIMEOUT

\* variant: ready tested before error
WaitResult_ReadyFirst(st) ==
    IF And(st, MASK_MBOX_STATUS_READY) THEN UCODE_OK
    ELSE IF And(st, MASK_MBOX_STATUS_ERROR) THEN UCODE_ERROR
    ELSE UCODE_TIMEOUT

\* variant: the test for a missing ready bit is left out
WaitResult_NoTimeout(st) ==
    IF And(st, MASK_MBOX_STATUS_ERROR) THEN UCODE_ERROR ELSE UCODE_OK

\* variant: the negation of the ready test is dropped
WaitResult_ReadyIsTimeout(st) ==
    IF And(st, MASK_MBOX_STATUS_ERROR) THEN UCODE_ERROR
    ELSE IF And(st, MASK_MBOX_STATUS_READY) THEN UCODE_TIMEOUT
    ELSE UCODE_OK

\* classification of the status value read after the poll loop
WaitResult(st) ==
    IF And(st, MASK_MBOX_STATUS_ERROR) THEN UCODE_ERROR
    ELSE IF ~And(st, MASK_MBOX_STATUS_READY) THEN UCODE_TIMEOUT
    ELSE UCODE_OK

\* variant: the chunk is counted whatever the wait returned
Accumulate_Always(xb, cs, st) == (xb + cs) % UINT_MOD

\* xaction_bytes after a wait that returned st
Accumulate(xb, cs, st) ==
    IF st = UCODE_OK THEN (xb + cs) % UINT_MOD ELSE xb

\* classification of a response by its flag word
ResponseResult(fl) ==
    IF And(fl, MASK_MBOX_RESP_ERROR) THEN UCODE_ERROR ELSE UCODE_OK

\* variant: only UCODE_ERROR counts as a failure
ReturnValue_NotError(st) == st # UCODE_ERROR

ReturnValue(st) == st = UCODE_OK
LogText(st) == IF st = UCODE_TIMEOUT THEN "timeout" ELSE "error"

\* the words request_xaction writes to write-data for the chunk at off
ChunkWords(total, off, cs) ==
    [i \in 1..DWORD_SIZE(cs) |->
        IF off + SIZEOF_U32 * i <= total
        THEN UcodeWord(off + SIZEOF_U32 * (i - 1))
        ELSE GARBAGE]
\* variant: the length word counts the payload only
RequestWords_PayloadLen(total, off, cs) ==
    <<MBOX_HDR, DWORD_SIZE(cs), MBOX_CMD_LOAD, 0>> \o ChunkWords(total, off, cs)
RequestWords(total, off, cs) ==
    <<MBOX_HDR, DWORD_SIZE(cs) + DWORD_SIZE(MBOX_HDR_SIZE), MBOX_CMD_LOAD, 0>>
        \o ChunkWords(total, off, cs)

(***************************************************************************)
(* Register accesses: <<"r" or "w", register, bits, word>>.  A value of    *)
(* the control or status register and a flag word are kept as bits, the    *)
(* other data words as numbers.                                            *)
(***************************************************************************)
WrCtrl(m) == <<"w", "control", m, 0>>
RdStatus(st) == <<"r", "status", st, 0>>
WrData(w) == <<"w", "wrdata", {}, w>>
RdData(w) == <<"r", "rddata", {}, w>>
RdFlags(fl) == <<"r", "rddata", fl, 0>>
\* writel(0, base + MBOX_RDDATA_OFFSET)
AckData == <<"w", "rddata", {}, 0>>

write_mbox_dword(w) == <<WrData(w)>>
\* variant: the word read is not acknowledged
read_mbox_dword_NoAck(w) == <<RdData(w)>>
read_mbox_dword(w) == <<RdData(w), AckData>>
read_mbox_flags(fl) == <<RdFlags(fl), AckData>>

abort_xaction == <<WrCtrl(MASK_MBOX_CTRL_ABORT)>>

\* variant: the mailbox is aborted before every request
request_xaction_AbortFirst(total, off, cs) ==
    abort_xaction
        \o [i \in 1..Len(RequestWords(total, off, cs)) |->
                WrData(RequestWords(total, off, cs)[i])]
        \o <<WrCtrl(MASK_MBOX_CTRL_GO)>>

\* the accesses of request_xaction for the chunk at off
request_xaction(total, off, cs) ==
    [i \in 1..Len(RequestWords(total, off, cs)) |->
        WrData(RequestWords(total, off, cs)[i])]
        \o <<WrCtrl(MASK_MBOX_CTRL_GO)>>

\* the accesses of request_xaction up to a fault on the first word of the chunk
request_xaction_fault(total, off, cs) ==
    SubSeq(request_xaction(total, off, cs), 1, DWORD_SIZE(MBOX_HDR_SIZE))

\* the accesses of read_xaction_response for the four words the device gives
read_xaction_response(id, len, noff, fl) ==
    read_mbox_dword(id) \o read_mbox_dword(len) \o read_mbox_dword(noff)
        \o read_mbox_flags(fl)

\* variant: a response with a wrong identifier or length is an error
DecodeState_Strict(id, len, fl) ==
    IF id # MBOX_HDR \/ len # DWORD_SIZE(MBOX_HDR_SIZE)
    THEN UCODE_ERROR ELSE ResponseResult(fl)

\* the state read_xaction_response returns: the identifier and the length
\* only feed WARN_ON_ONCE
DecodeState(id, len, fl) == ResponseResult(fl)

\* variant: a wait that timed out is tried again
AfterWait_Retry(st) ==
    IF st = UCODE_OK THEN "response"
    ELSE IF st = UCODE_TIMEOUT THEN "request" ELSE "out"

\* where the loop goes after wait_for_xaction returned st
AfterWait(st) == IF st # UCODE_OK THEN "out" ELSE "response"

\* variant: a ready sample does not end the poll loop
PollStep_NoBreak(t, s) ==
    [pc |-> IF t + 1 < MBOX_XACTION_TIMEOUT THEN "poll" ELSE "final",
     timeout |-> t + 1]

\* one iteration of the poll loop with the counter at t and the sample s
PollStep(t, s) ==
    IF And(s, MASK_MBOX_STATUS_READY)
    THEN [pc |-> "final", timeout |-> t]
    ELSE [pc |-> IF t + 1 < MBOX_XACTION_TIMEOUT THEN "poll" ELSE "final",
          timeout |-> t + 1]

\* variant: the mailbox is aborted once more on the way out
AfterUnmap_Abort == abort_xaction

\* the register accesses of staging_work after iounmap
AfterUnmap == <<>>

\* whether the addition of line 141 wraps
Wraps(xb, cs, st) == st = UCODE_OK /\ xb + cs >= UINT_MOD

\* the chunk at off reaches past the end of the image
OutOfImage(total, off, cs) == DWORD_SIZE(cs) > 0 /\ off + cs > total

\* the offset a device that consumes every chunk reports
InSequence(total, off, cs) ==
    IF off + cs >= total THEN STAGING_OFFSET_END ELSE off + cs

\* the step made the register accesses a
Account(a) ==
    /\ io' = a
    /\ first_acc' = IF first_acc = <<>> /\ a # <<>> THEN a[1] ELSE first_acc
    /\ nabort' = Min(2, nabort + Cardinality({i \in DOMAIN a :
                                    a[i] = WrCtrl(MASK_MBOX_CTRL_ABORT)}))

(***************************************************************************)
(* Initial state: staging_work has been called.                            *)
(***************************************************************************)
Init ==
    /\ totalsize \in TotalSizes
    /\ pc = "map"
    /\ mapped = FALSE
    /\ ctrl = {}
    /\ wrlog = <<>>
    /\ offset = 0
    /\ xaction_bytes = 0
    /\ chunksize \in {0, PAGE_SIZE}      \* not initialised
    /\ state \in UcodeStates             \* not initialised
    /\ timeout = 0
    /\ status = {}
    /\ flag = {}
    /\ result = FALSE
    /\ logmsg = "none"
    /\ nreq = 0
    /\ nwait = 0
    /\ ndec = 0
    /\ sent = 0
    /\ wait_ret = UCODE_NONE
    /\ saw_ready = FALSE
    /\ saw_err = FALSE
    /\ hw_benign = TRUE
    /\ inseq = TRUE
    /\ first_resp = "none"
    /\ why = "none"
    /\ io = <<>>
    /\ first_acc = <<>>
    /\ nabort = 0
    /\ nunmap = 0
    /\ carry = 0

(***************************************************************************)
(* ioremap, the early return on failure, abort_xaction.                    *)
(***************************************************************************)
Map ==
    /\ pc = "map"
    /\ \E ok \in BOOLEAN :
        IF ok
        THEN /\ mapped' = TRUE
             /\ ctrl' = MASK_MBOX_CTRL_ABORT
             /\ Account(abort_xaction)
             /\ pc' = "top"
             /\ UNCHANGED <<result, why>>
        ELSE /\ result' = FALSE
             /\ Account(<<>>)
             /\ why' = "nomap"
             /\ pc' = "done"
             /\ UNCHANGED <<mapped, ctrl>>
    /\ UNCHANGED <<totalsize, wrlog, offset, xaction_bytes, chunksize, state,
                   timeout, status, flag, logmsg, nreq, nwait, ndec, sent,
                   wait_ret, saw_ready, saw_err, hw_benign, inseq, first_resp,
                   nunmap, carry>>

(***************************************************************************)
(* Loop condition, get_chunksize and the budget test.                      *)
(***************************************************************************)
LoopTop ==
    /\ pc = "top"
    /\ IF offset = STAGING_OFFSET_END
       THEN /\ pc' = "out"
            /\ why' = "sentinel"
            /\ UNCHANGED <<chunksize, state>>
       ELSE /\ chunksize' = get_chunksize(totalsize, offset)
            /\ IF BudgetExceeded(xaction_bytes, chunksize', totalsize)
               THEN /\ state' = BudgetState
                    /\ pc' = "out"
                    /\ why' = "budget"
               ELSE /\ pc' = "request"
                    /\ UNCHANGED <<state, why>>
    /\ UNCHANGED <<totalsize, mapped, ctrl, wrlog, offset, xaction_bytes,
                   timeout, status, flag, result, logmsg, nreq, nwait, ndec,
                   sent, wait_ret, saw_ready, saw_err, hw_benign, inseq,
                   first_resp, nunmap, carry>>
    /\ Account(<<>>)

(***************************************************************************)
(* request_xaction, then the entry of wait_for_xaction (timeout = 0).      *)
(***************************************************************************)
Request ==
    /\ pc = "request"
    /\ wrlog' = RequestWords(totalsize, offset, chunksize)
    /\ ctrl' = MASK_MBOX_CTRL_GO
    /\ nreq' = Bump(nreq)
    /\ sent' = (sent + chunksize) % UINT_MOD
    /\ timeout' = 0
    /\ wait_ret' = UCODE_NONE
    /\ saw_ready' = FALSE
    /\ saw_err' = FALSE
    /\ pc' = "poll"
    /\ Account(request_xaction(totalsize, offset, chunksize))
    /\ UNCHANGED <<totalsize, mapped, offset, xaction_bytes, chunksize, state,
                   status, flag, result, logmsg, nwait, ndec, hw_benign, inseq,
                   first_resp, why, nunmap, carry>>

\* reading chunk[i] outside the image may fault instead of returning a value
RequestFault ==
    /\ pc = "request"
    /\ OutOfImage(totalsize, offset, chunksize)
    /\ wrlog' = SubSeq(RequestWords(totalsize, offset, chunksize), 1,
                       DWORD_SIZE(MBOX_HDR_SIZE))
    /\ pc' = "oops"
    /\ Account(request_xaction_fault(totalsize, offset, chunksize))
    /\ UNCHANGED <<totalsize, mapped, ctrl, offset, xaction_bytes, chunksize,
                   state, timeout, status, flag, result, logmsg, nreq, nwait,
                   ndec, sent, wait_ret, saw_ready, saw_err, hw_benign, inseq,
                   first_resp, why, nunmap, carry>>

(***************************************************************************)
(* One iteration of the poll loop: msleep(1), sample, break when ready.    *)
(***************************************************************************)
Poll ==
    /\ pc = "poll"
    /\ timeout < MBOX_XACTION_TIMEOUT
    /\ \E s \in StatusValues :
        /\ status' = s
        /\ saw_err' = (saw_err \/ And(s, MASK_MBOX_STATUS_ERROR))
        /\ saw_ready' = (saw_ready \/ And(s, MASK_MBOX_STATUS_READY))
        /\ pc' = PollStep(timeout, s).pc
        /\ timeout' = PollStep(timeout, s).timeout
        /\ Account(<<RdStatus(s)>>)
    /\ UNCHANGED <<totalsize, mapped, ctrl, wrlog, offset, xaction_bytes,
                   chunksize, state, flag, result, logmsg, nreq, nwait, ndec,
                   sent, wait_ret, hw_benign, inseq, first_resp, why, nunmap,
                   carry>>

(***************************************************************************)
(* The status read after the poll loop, the return of wait_for_xaction,    *)
(* and the caller's branch and accounting.                                 *)
(***************************************************************************)
FinalRead ==
    /\ pc = "final"
    /\ \E s \in StatusValues :
        /\ status' = s
        /\ saw_err' = (saw_err \/ And(s, MASK_MBOX_STATUS_ERROR))
        /\ state' = WaitResult(s)
        /\ wait_ret' = WaitResult(s)
        /\ xaction_bytes' = Accumulate(xaction_bytes, chunksize, WaitResult(s))
        /\ hw_benign' = (hw_benign /\ And(s, MASK_MBOX_STATUS_READY)
                                   /\ ~And(s, MASK_MBOX_STATUS_ERROR))
        /\ inseq' = (inseq /\ WaitResult(s) = UCODE_OK)
        /\ carry' = IF Wraps(xaction_bytes, chunksize, WaitResult(s))
                    THEN 1 ELSE carry
        /\ pc' = AfterWait(WaitResult(s))
        /\ why' = IF WaitResult(s) # UCODE_OK THEN "wait" ELSE why
        /\ Account(<<RdStatus(s)>>)
    /\ nwait' = Bump(nwait)
    /\ timeout' = 0                      \* the counter dies with the call
    /\ UNCHANGED <<totalsize, mapped, ctrl, wrlog, offset, chunksize, flag,
                   result, logmsg, nreq, ndec, sent, saw_ready, first_resp,
                   nunmap>>

(***************************************************************************)
(* read_xaction_response: four words read and acknowledged, the offset     *)
(* stored, the flag word classified; then the caller's branch.             *)
(***************************************************************************)
ReadResponse ==
    /\ pc = "response"
    /\ \E id \in HdrValues, len \in LenValues,
          noff \in OffsetValues(totalsize, offset, chunksize),
          fl \in FlagValues :
        /\ offset' = noff
        /\ flag' = fl
        /\ state' = DecodeState(id, len, fl)
        /\ Account(read_xaction_response(id, len, noff, fl))
        /\ hw_benign' = (hw_benign /\ ~And(fl, MASK_MBOX_RESP_ERROR)
                                   /\ noff # STAGING_OFFSET_END)
        /\ inseq' = (inseq /\ ~And(fl, MASK_MBOX_RESP_ERROR)
                           /\ noff = InSequence(totalsize, offset, chunksize))
        /\ first_resp' = IF first_resp # "none" THEN first_resp
                         ELSE IF noff = STAGING_OFFSET_END
                                 /\ ~And(fl, MASK_MBOX_RESP_ERROR)
                              THEN "end" ELSE "other"
        /\ IF DecodeState(id, len, fl) # UCODE_OK
           THEN pc' = "out" /\ why' = "response"
           ELSE pc' = "top" /\ UNCHANGED why
    /\ ndec' = Bump(ndec)
    /\ UNCHANGED <<totalsize, mapped, ctrl, wrlog, xaction_bytes, chunksize,
                   timeout, status, result, logmsg, nreq, nwait, sent, wait_ret,
                   saw_ready, saw_err, nunmap, carry>>

(***************************************************************************)
(* iounmap, the return value and the message.                              *)
(***************************************************************************)
Finish ==
    /\ pc = "out"
    /\ mapped' = FALSE
    /\ result' = ReturnValue(state)
    /\ logmsg' = IF ReturnValue(state) THEN logmsg ELSE LogText(state)
    /\ pc' = "done"
    /\ nunmap' = nunmap + 1
    /\ Account(AfterUnmap)
    /\ UNCHANGED <<totalsize, ctrl, wrlog, offset, xaction_bytes, chunksize,
                   state, timeout, status, flag, nreq, nwait, ndec, sent,
                   wait_ret, saw_ready, saw_err, hw_benign, inseq, first_resp,
                   why, carry>>

Next ==
    \/ Map
    \/ LoopTop
    \/ Request
    \/ RequestFault
    \/ Poll
    \/ FinalRead
    \/ ReadResponse
    \/ Finish

(***************************************************************************)
(* The placeholder build, intel_staging.c: request_xaction writes no       *)
(* register and read_xaction_response returns UCODE_ERROR without reading  *)
(* the mailbox or storing an offset.  abort_xaction, wait_for_xaction,     *)
(* get_chunksize and staging_work are the same code as above.              *)
(***************************************************************************)
StubRequestAccesses == <<>>

\* variant: the placeholder decode reports success
StubResponseState_Ok == UCODE_OK
StubResponseState == UCODE_ERROR

StubRequest ==
    /\ pc = "request"
    /\ nreq' = Bump(nreq)
    /\ sent' = (sent + chunksize) % UINT_MOD
    /\ timeout' = 0
    /\ wait_ret' = UCODE_NONE
    /\ saw_ready' = FALSE
    /\ saw_err' = FALSE
    /\ pc' = "poll"
    /\ Account(StubRequestAccesses)
    /\ UNCHANGED <<totalsize, mapped, ctrl, wrlog, offset, xaction_bytes,
                   chunksize, state, status, flag, result, logmsg, nwait, ndec,
                   hw_benign, inseq, first_resp, why, nunmap, carry>>

StubReadResponse ==
    /\ pc = "response"
    /\ state' = StubResponseState
    /\ ndec' = Bump(ndec)
    /\ IF StubResponseState # UCODE_OK
       THEN pc' = "out" /\ why' = "response"
       ELSE pc' = "top" /\ UNCHANGED why
    /\ Account(<<>>)
    /\ UNCHANGED <<totalsize, mapped, ctrl, wrlog, offset, xaction_bytes,
                   chunksize, timeout, status, flag, result, logmsg, nreq,
                   nwait, sent, wait_ret, saw_ready, saw_err, hw_benign, inseq,
                   first_resp, nunmap, carry>>

StubNext ==
    \/ Map
    \/ LoopTop
    \/ StubRequest
    \/ Poll
    \/ FinalRead
    \/ StubReadResponse
    \/ Finish

Spec == Init /\ [][Next]_vars
StubSpec == Init /\ [][StubNext]_vars

\* the host keeps running: staging_work is a single blocking thread
FairSpec == Spec /\ WF_vars(Next)

CeilDiv(a, b) == (a + b - 1) \div b

\* wait_for_xaction has returned and no later request has been made
WaitReturned == wait_ret # UCODE_NONE
\* staging_work has returned
Returned == pc = "done"

(***************************************************************************)
(* C1: staging_work returns true exactly when the loop was left by its     *)
(* condition, after a response decoded as OK reported the end marker; it   *)
(* returns false after a mapping failure, a wait that returned ERROR or    *)
(* TIMEOUT, a response with the error flag, and a failed budget test; the  *)
(* loop is left in no other way.                                           *)
(***************************************************************************)
C1_TrueIffDone ==
    Returned =>
        /\ why \in {"nomap", "budget", "wait", "response", "sentinel"}
        /\ result = (why = "sentinel")
        /\ result = (offset = STAGING_OFFSET_END
                        /\ ~And(flag, MASK_MBOX_RESP_ERROR))
        /\ result => (ndec > 0 /\ wait_ret = UCODE_OK /\ state = UCODE_OK
                        /\ logmsg = "none")
        /\ (why = "wait") = (wait_ret \in {UCODE_ERROR, UCODE_TIMEOUT})
        /\ (why = "response") = And(flag, MASK_MBOX_RESP_ERROR)
        /\ (why = "nomap") = (ctrl = {})

C1_Witness ==
    Returned /\ result /\ nreq = 2 /\ totalsize = 2 * PAGE_SIZE

C3_BudgetEndsLoop == <>(pc \in {"done", "oops"} \/ ~hw_benign)

(***************************************************************************)
(* C4: when the status value read after the poll loop has the error bit    *)
(* set, wait_for_xaction returns ERROR, also with the ready bit set in the *)
(* same value and however the poll loop ended, and staging_work returns    *)
(* false with the classification "error".                                  *)
(***************************************************************************)
C4_ErrorDominates ==
    (WaitReturned /\ And(status, MASK_MBOX_STATUS_ERROR)) =>
        /\ wait_ret = UCODE_ERROR
        /\ state = UCODE_ERROR
        /\ pc \in {"out", "done"}
        /\ Returned => (~result /\ logmsg = "error")

C4_Witness ==
    /\ Returned
    /\ saw_ready
    /\ And(status, MASK_MBOX_STATUS_ERROR)
    /\ And(status, MASK_MBOX_STATUS_READY)
    /\ ~result
    /\ logmsg = "error"

(***************************************************************************)
(* C5 as stated: when no sample of the poll loop had the ready bit set     *)
(* during the whole budget and the error bit was not set,                  *)
(* wait_for_xaction returns TIMEOUT and staging_work returns false with    *)
(* the classification "timeout", however the device changes the status.    *)
(***************************************************************************)
C5_NoReadySampleTimesOut ==
    (WaitReturned /\ ~saw_ready /\ ~saw_err) =>
        /\ wait_ret = UCODE_TIMEOUT
        /\ Returned => (~result /\ logmsg = "timeout")

(***************************************************************************)
(* C5 amended: when the ready bit was set neither in a sample of the poll  *)
(* loop nor in the status value read after the poll loop, and the error    *)
(* bit is not set in that value, wait_for_xaction returns TIMEOUT and      *)
(* staging_work returns false with the classification "timeout".           *)
(***************************************************************************)
C5_NotReadyAtFinalReadTimesOut ==
    (/\ WaitReturned
     /\ ~saw_ready
     /\ ~And(status, MASK_MBOX_STATUS_READY)
     /\ ~And(status, MASK_MBOX_STATUS_ERROR)) =>
        /\ wait_ret = UCODE_TIMEOUT
        /\ state = UCODE_TIMEOUT
        /\ pc \in {"out", "done"}
        /\ Returned => (~result /\ logmsg = "timeout")

C5_Witness ==
    /\ Returned
    /\ ~saw_ready
    /\ ~saw_err
    /\ wait_ret = UCODE_TIMEOUT
    /\ nwait = 2
    /\ logmsg = "timeout"

(***************************************************************************)
(* C6 as stated: when a sample of the poll loop had the ready bit set and  *)
(* no status value read had the error bit set, wait_for_xaction returns    *)
(* OK, however the device changes the status between that sample and the   *)
(* read after the poll loop.                                               *)
(***************************************************************************)
C6_ReadySampleGivesOk ==
    (WaitReturned /\ saw_ready /\ ~saw_err) => wait_ret = UCODE_OK

(***************************************************************************)
(* C6 amended: when a sample of the poll loop had the ready bit set, the   *)
(* ready bit is still set in the status value read after the poll loop and *)
(* no status value read had the error bit set, wait_for_xaction returns OK *)
(* and the chunk is accounted and its response read.                       *)
(***************************************************************************)
C6_ReadyAtFinalReadGivesOk ==
    (/\ WaitReturned
     /\ saw_ready
     /\ ~saw_err
     /\ And(status, MASK_MBOX_STATUS_READY)) =>
        /\ wait_ret = UCODE_OK
        /\ why # "wait"
        /\ xaction_bytes = sent

C6_Witness ==
    /\ pc = "response"
    /\ saw_ready
    /\ ~saw_err
    /\ And(status, MASK_MBOX_STATUS_READY)
    /\ wait_ret = UCODE_OK

(***************************************************************************)
(* C7: for every payload size, when the mapping succeeds, every wait       *)
(* returns OK and every response is error-free and in sequence, the        *)
(* number of requests is ceil(totalsize / chunk limit) and the result is   *)
(* true.                                                                   *)
(***************************************************************************)
C7_ChunkCountIsCeil ==
    (Returned /\ why # "nomap" /\ inseq) =>
        /\ nreq = CeilDiv(totalsize, MBOX_XACTION_LEN)
        /\ result

(***************************************************************************)
(* C8: for a payload of at most one chunk, when the first wait returns OK  *)
(* and the first response is error-free and reports the end marker, there  *)
(* is exactly one request, one wait and one decode, xaction_bytes equals   *)
(* the payload size and staging_work returns true.                         *)
(***************************************************************************)
C8_SingleChunk ==
    (totalsize <= MBOX_XACTION_LEN /\ first_resp = "end") =>
        /\ nreq = 1
        /\ nwait = 1
        /\ ndec = 1
        /\ xaction_bytes = totalsize
        /\ pc \in {"top", "out", "done"}
        /\ Returned => result

C8_Witness ==
    /\ Returned
    /\ totalsize = MBOX_XACTION_LEN
    /\ first_resp = "end"
    /\ result
    /\ Len(wrlog) = DWORD_SIZE(MBOX_HDR_SIZE) + DWORD_SIZE(MBOX_XACTION_LEN)

(***************************************************************************)
(* C9: when the budget test at the top of an iteration fails, the loop is  *)
(* left with state TIMEOUT and, from there to the return, nothing is       *)
(* written to write-data and no go strobe is issued; staging_work returns  *)
(* false with the classification "timeout".                                *)
(***************************************************************************)
BudgetTrips ==
    /\ pc = "top"
    /\ offset # STAGING_OFFSET_END
    /\ (xaction_bytes + get_chunksize(totalsize, offset)) % UINT_MOD
            > (2 * totalsize) % UINT_MOD

SentBefore == (sent - chunksize + UINT_MOD) % UINT_MOD

C11_NoRetry ==
    [][/\ wait_ret' \in {UCODE_ERROR, UCODE_TIMEOUT} => pc' \in {"out", "done"}
       /\ (pc = "response" /\ And(flag', MASK_MBOX_RESP_ERROR)) => pc' = "out"
       /\ BudgetTrips => (pc' = "out" /\ io' = <<>>)
       /\ (pc = "out" /\ state # UCODE_OK) =>
                /\ io' = <<>>
                /\ ctrl' = ctrl
                /\ wrlog' = wrlog
                /\ nreq' = nreq
                /\ nabort' = nabort
                /\ pc' = "done"
                /\ result' = FALSE]_vars

C11_Witness ==
    /\ Returned
    /\ why = "response"
    /\ nreq = 2
    /\ ndec = 2
    /\ io = <<>>
    /\ ~result

(***************************************************************************)
(* C12: after a successful mapping the register window is released exactly *)
(* once on every exit path, only on the way out, and the step that         *)
(* releases it accesses no register; registers are accessed only while the *)
(* window is mapped.  When the mapping fails staging_work returns false    *)
(* with no register access and no release.                                 *)
(***************************************************************************)
C12_ReleasedOnce ==
    /\ nunmap <= 1
    /\ ~Returned => nunmap = 0
    /\ (Returned /\ why # "nomap") => (nunmap = 1 /\ ~mapped)
    /\ (Returned /\ why = "nomap") =>
            /\ nunmap = 0
            /\ first_acc = <<>>
            /\ io = <<>>
            /\ ctrl = {}
            /\ ~result
    /\ nunmap > 0 => io = <<>>
    /\ io # <<>> => mapped

C12_Witness ==
    /\ Returned
    /\ why = "wait"
    /\ wait_ret = UCODE_ERROR
    /\ nunmap = 1
    /\ ~mapped
    /\ first_acc # <<>>

(***************************************************************************)
(* C13: every chunk handed to request_xaction lies inside the payload.     *)
(* When a chunk is about to be sent, offset <= totalsize (the WARN_ON_ONCE *)
(* of get_chunksize has not fired), chunksize <= MBOX_XACTION_LEN and      *)
(* offset + chunksize <= totalsize, whatever next-offset values the device *)
(* has reported.                                                           *)
(***************************************************************************)
C13_ChunkInsidePayload ==
    pc = "request" =>
        /\ offset <= totalsize
        /\ chunksize <= MBOX_XACTION_LEN
        /\ offset + chunksize <= totalsize

(***************************************************************************)
(* C14: when the mapping succeeds the abort strobe (control bit 0) is      *)
(* written exactly once, as the first register access of the transfer, so  *)
(* before every write-data write, every go strobe and every status read;   *)
(* it is not written again for a chunk or on failure.                      *)
(***************************************************************************)
C14_AbortOnceFirst ==
    /\ nabort <= 1
    /\ first_acc # <<>> => first_acc = WrCtrl(MASK_MBOX_CTRL_ABORT)
    /\ (pc # "map" /\ why # "nomap") =>
            /\ nabort = 1
            /\ first_acc = WrCtrl(MASK_MBOX_CTRL_ABORT)
    /\ (nreq > 0 \/ nwait > 0 \/ ndec > 0) => nabort = 1

C14_Witness ==
    /\ Returned
    /\ result
    /\ nreq = 3
    /\ nwait = 3
    /\ nabort = 1
    /\ first_acc = WrCtrl(MASK_MBOX_CTRL_ABORT)

(***************************************************************************)
(* C15: every read of the read-data register is followed at once, with no  *)
(* other register access between, by a write of zero to read-data; a       *)
(* response decode makes exactly four such pairs, for the identifier, the  *)
(* header length, the next offset and the flags in this order, also when   *)
(* the identifier or the header length mismatches or the error flag is     *)
(* set.                                                                    *)
(***************************************************************************)
RdDataReads == {i \in DOMAIN io : io[i][1] = "r" /\ io[i][2] = "rddata"}

C15_ReadThenAck ==
    /\ \A i \in RdDataReads : i + 1 \in DOMAIN io /\ io[i + 1] = AckData
    /\ RdDataReads # {} =>
            /\ Len(io) = 8
            /\ RdDataReads = {1, 3, 5, 7}
            /\ offset = io[5][4]
            /\ flag = io[7][3]

C15_Witness ==
    /\ Len(io) = 8
    /\ io[1] = RdData(0)
    /\ io[2] = AckData
    /\ io[3][4] # DWORD_SIZE(MBOX_HDR_SIZE)
    /\ io[7] = RdFlags(MASK_MBOX_RESP_ERROR)
    /\ io[8] = AckData
    /\ pc = "out"

(***************************************************************************)
(* C16: a request writes to write-data, in this order, the identifier, the *)
(* length word, the command LOAD (3), a zero word and then the payload     *)
(* words of the chunk in ascending order, and writes the go bit (control   *)
(* bit 31) once, after the last payload word; the length word is the       *)
(* number of words written to write-data for the request, the payload      *)
(* dwords plus 4.  (A request that faults while it reads the chunk does    *)
(* not get to the go bit.)                                                 *)
(***************************************************************************)
WrDataWrites == {i \in DOMAIN io : io[i][1] = "w" /\ io[i][2] = "wrdata"}
GoWrites == {i \in DOMAIN io : io[i] = WrCtrl(MASK_MBOX_CTRL_GO)}

C16_RequestFraming ==
    /\ pc = "oops" => GoWrites = {}
    /\ GoWrites # {} => WrDataWrites # {}
    /\ (WrDataWrites # {} /\ pc # "oops") =>
            /\ Len(io) = DWORD_SIZE(chunksize) + 5
            /\ WrDataWrites = 1..(Len(io) - 1)
            /\ GoWrites = {Len(io)}
            /\ io[1] = WrData(MBOX_HDR)
            /\ io[2] = WrData(Cardinality(WrDataWrites))
            /\ io[2] = WrData(DWORD_SIZE(chunksize) + 4)
            /\ io[3] = WrData(3)
            /\ io[4] = WrData(0)
            /\ \A i \in 1..DWORD_SIZE(chunksize) :
                    (offset <= totalsize /\ offset + SIZEOF_U32 * i <= totalsize)
                        => io[4 + i] = WrData(UcodeWord(offset + SIZEOF_U32 * (i - 1)))

C16_Witness ==
    /\ pc = "poll"
    /\ nreq = 2
    /\ offset = PAGE_SIZE
    /\ chunksize = PAGE_SIZE
    /\ Len(io) = DWORD_SIZE(PAGE_SIZE) + 5
    /\ io[2] = WrData(DWORD_SIZE(PAGE_SIZE) + 4)
    /\ io[5] = WrData(UcodeWord(PAGE_SIZE))
    /\ io[Len(io)] = WrCtrl(MASK_MBOX_CTRL_GO)

(***************************************************************************)
(* C17: protocol anomalies are not fatal.  What a response decode leaves   *)
(* behind is fixed by the state before it and by the next-offset and flags *)
(* words alone: offset is the third word, the state is ERROR exactly when  *)
(* the fourth has the error bit, the loop goes on exactly when it has not, *)
(* the byte count and the registers written are untouched and the writes   *)
(* of the step are the four acknowledgements.  Nothing is left to the      *)
(* identifier and header-length words, so two runs that differ only in     *)
(* them make the same register writes and return the same result.          *)
(***************************************************************************)
C17_HeaderWordsIgnored ==
    [][pc = "response" =>
        /\ Len(io') = 8
        /\ \A i \in {2, 4, 6, 8} : io'[i] = AckData
        /\ \A i \in {1, 3, 5, 7} : io'[i][1] = "r"
        /\ offset' = io'[5][4]
        /\ flag' = io'[7][3]
        /\ state' = IF And(io'[7][3], MASK_MBOX_RESP_ERROR)
                    THEN UCODE_ERROR ELSE UCODE_OK
        /\ pc' = IF And(io'[7][3], MASK_MBOX_RESP_ERROR) THEN "out" ELSE "top"
        /\ UNCHANGED <<totalsize, mapped, ctrl, wrlog, xaction_bytes,
                       chunksize, nreq, nwait, nabort, nunmap, result>>]_vars

C17_Witness ==
    /\ pc = "top"
    /\ Len(io) = 8
    /\ io[1] = RdData(0)
    /\ io[3] = RdData(DWORD_SIZE(MBOX_HDR_SIZE) + 1)
    /\ state = UCODE_OK
    /\ offset = STAGING_OFFSET_END
    /\ nreq = 2

(***************************************************************************)
(* C18: a call of wait_for_xaction ends after at most MBOX_XACTION_TIMEOUT *)
(* sleep-then-sample steps followed by exactly one more status read.  A    *)
(* sample is taken only while fewer than MBOX_XACTION_TIMEOUT have been;   *)
(* a sample with the ready bit ends the sampling, one without it counts    *)
(* and the sampling ends when the count is MBOX_XACTION_TIMEOUT; then one  *)
(* status read decides and the wait returns.  Every access of the wait is  *)
(* a read of the status register: control, write-data and read-data are    *)
(* not written.                                                            *)
(***************************************************************************)
OneStatusRead(a) == Len(a) = 1 /\ a[1][1] = "r" /\ a[1][2] = "status"

C18_WaitBounded ==
    [][/\ pc = "poll" =>
            /\ timeout < MBOX_XACTION_TIMEOUT
            /\ ~saw_ready
            /\ OneStatusRead(io')
            /\ IF And(io'[1][3], MASK_MBOX_STATUS_READY)
               THEN pc' = "final" /\ timeout' = timeout
               ELSE /\ timeout' = timeout + 1
                    /\ pc' = IF timeout' = MBOX_XACTION_TIMEOUT
                             THEN "final" ELSE "poll"
            /\ timeout' + (IF saw_ready' THEN 1 ELSE 0) <= MBOX_XACTION_TIMEOUT
            /\ UNCHANGED <<ctrl, wrlog, nabort, nreq>>
       /\ pc = "final" =>
            /\ OneStatusRead(io')
            /\ status' = io'[1][3]
            /\ wait_ret' \in UcodeStates
            /\ pc' \in {"response", "out"}
            /\ UNCHANGED <<ctrl, wrlog, nabort, nreq>>]_vars

C18_Witness ==
    /\ pc = "final"
    /\ timeout = MBOX_XACTION_TIMEOUT
    /\ ~saw_ready
    /\ io = <<RdStatus({})>>
    /\ nreq = 2

(***************************************************************************)
(* C19: the budget test is exact in unsigned int.  Whenever the test is    *)
(* evaluated neither 2 * totalsize nor xaction_bytes + chunksize wraps     *)
(* modulo UINT_MOD, and xaction_bytes has not wrapped before, so the test  *)
(* trips exactly when the true sum of the chunk sizes, the next chunk      *)
(* included, exceeds twice the true payload size.                          *)
(***************************************************************************)
TrueBytes == carry * UINT_MOD + xaction_bytes

C19_BudgetExact ==
    (pc = "top" /\ offset # STAGING_OFFSET_END) =>
        /\ 2 * totalsize < UINT_MOD
        /\ xaction_bytes + get_chunksize(totalsize, offset) < UINT_MOD
        /\ carry = 0
        /\ BudgetTrips <=>
                TrueBytes + get_chunksize(totalsize, offset) > 2 * totalsize

(***************************************************************************)
(* C20: in the placeholder build staging_work returns false for every      *)
(* payload size and every behaviour of the device; it waits at most once,  *)
(* sends at most one (empty) request, writes nothing to write-data and     *)
(* writes no register but the one abort strobe.                            *)
(***************************************************************************)
C20_StubAlwaysFails ==
    /\ Returned => ~result
    /\ pc # "oops"
    /\ nwait <= 1
    /\ nreq <= 1
    /\ ndec <= 1
    /\ nabort <= 1
    /\ wrlog = <<>>
    /\ ctrl \in {{}, MASK_MBOX_CTRL_ABORT}
    /\ \A i \in DOMAIN io :
            io[i][1] = "w" => io[i] = WrCtrl(MASK_MBOX_CTRL_ABORT)

C20_Witness ==
    /\ Returned
    /\ ~result
    /\ logmsg = "error"
    /\ why = "response"
    /\ wait_ret = UCODE_OK
    /\ nwait = 1
    /\ nabort = 1
    /\ ctrl = MASK_MBOX_CTRL_ABORT
    /\ wrlog = <<>>

====
